---- MODULE Spec2Model ----
\* Model of the Telegram -> Twitter bot: the webhook route of server.js and the
\* command handlers of TelegramBotHandler (bot/TelegramBotHandler.js, first
\* version in src/unnamed/part_000), over the botUsers collection of
\* models/User.js.  Every await of a handler that touches shared state (the
\* collection, the database connection, the authorization server) is one step.
EXTENDS Integers, Sequences, FiniteSets, TLC

VARIABLES
    users,          \* the botUsers collection: a sequence of documents, _id = index
    now,            \* the clock read by new Date() / Date.now()
    dbConnected,    \* mongoose.connection.readyState === 1
    isInitialized,  \* botHandler.isInitialized
    bot,            \* botHandler.bot !== null
    initPromise,    \* server.js initializationPromise: "none", "pending", "resolved"
    links,          \* number of authorization links generated so far
    usedCodes,      \* authorization codes the authorization server has already redeemed
    procs,          \* the webhook requests in flight, one record per slot
    route,          \* which webhook route is deployed: "async" (server.js) or "sync" (src/unnamed/part_002)
    hist            \* how the handling that completed last ended: "disconnected" (a /disconnect that unlinked the account of identity from), "failed" (a dependency failed on the way); NoHist otherwise

vars == <<users, now, dbConnected, isInitialized, bot, initPromise, links, usedCodes, procs, route, hist>>

----------------------------------------------------------------------------
\* Bounds of the model

MaxIds == 2
MaxInFlight == 2
MaxTime == 3
MaxAuthLinks == 2
TokenLifetime == 1

Ids == 1..MaxIds
Procs == 1..MaxInFlight

\* Program constant: the tweet length limit of handlePostCommand
MaxTweetLength == 280

----------------------------------------------------------------------------
\* Values

Null == 0                       \* undefined / null / unset
Absent == -1                    \* a query parameter the text does not contain
NoOAuth == [codeVerifier |-> Null, state |-> Null]

\* msg.from.username of an identity
telegramUsername(id) == id

\* A text body is a character repeated len times; the lengths around the limit
TweetLengths == {1, MaxTweetLength, MaxTweetLength + 1}
Bodies == [ch : {"a"}, len : TweetLengths]
NoBody == [ch |-> "", len |-> Absent]

\* String.prototype.toLowerCase on the user names the identity endpoint returns
toLowerCase(s) == CASE s = "Bob" -> "bob"
                    [] s = "bob" -> "bob"
                    [] OTHER -> s
Usernames == {"Bob"}


----------------------------------------------------------------------------
\* models/User.js: the schema and its defaults

NoDoc == [telegramId |-> Null, telegramUsername |-> Null, xHandle |-> "",
          accessToken |-> Null, refreshToken |-> Null, tokenExpiresAt |-> Null,
          isConnected |-> FALSE, lastActivity |-> Null,
          oauth |-> NoOAuth]

\* (mutant) a schema whose isConnected defaults to true
userSchema_connectedByDefault(id, name, t) ==
    [telegramId |-> id, telegramUsername |-> name, xHandle |-> "",
     accessToken |-> Null, refreshToken |-> Null, tokenExpiresAt |-> Null,
     isConnected |-> TRUE, lastActivity |-> t,
     oauth |-> NoOAuth]

\* new User({telegramId, telegramUsername, joinTime: new Date()}) followed by the
\* pre('save') hook: the schema defaults, lastActivity stamped by the hook
\* (joinTime, which nothing reads but the /state report, is left out)
userSchema(id, name, t) ==
    [telegramId |-> id, telegramUsername |-> name, xHandle |-> "",
     accessToken |-> Null, refreshToken |-> Null, tokenExpiresAt |-> Null,
     isConnected |-> FALSE, lastActivity |-> t,
     oauth |-> NoOAuth]

\* (mutant) a collection without the unique index
uniqueTelegramId_notEnforced(coll, id) == TRUE

\* The unique index on telegramId: an insert of a second document with the same
\* key is refused (duplicate key error)
uniqueTelegramId(coll, id) == \A i \in DOMAIN coll : coll[i].telegramId # id

\* User.findOne(filter): the _id (index) of the first document among those the
\* filter matches (hits), 0 if none
findOne(coll, hits) ==
    IF hits \cap DOMAIN coll = {} THEN 0
    ELSE CHOOSE i \in hits \cap DOMAIN coll : \A j \in hits \cap DOMAIN coll : i <= j

findByTelegramId(coll, id) == findOne(coll, {i \in DOMAIN coll : coll[i].telegramId = id})

docOf(coll, id) == IF findByTelegramId(coll, id) = 0 THEN NoDoc
                   ELSE coll[findByTelegramId(coll, id)]

\* (mutant) an expiry check that counts the moment of expiry as expired
tokenExpired_atExpiry(doc, t) == doc.tokenExpiresAt # Null /\ t >= doc.tokenExpiresAt

\* (mutant) an expiry check that is one tick late
tokenExpired_lateByOne(doc, t) == doc.tokenExpiresAt # Null /\ t > doc.tokenExpiresAt + 1

\* user.tokenExpiresAt && new Date() > user.tokenExpiresAt
tokenExpired(doc, t) == doc.tokenExpiresAt # Null /\ t > doc.tokenExpiresAt

----------------------------------------------------------------------------
\* Inbound messages.  A text is described by what the dispatcher and the handlers
\* look at: its leading command word (cmd, "" when the text does not start with
\* "/"), whether anything follows the word (rest), the body that follows, and the
\* URL it contains (url) with its code and state query parameters (Absent: the
\* text does not contain the parameter; Null: the parameter is empty).

NoText == [cmd |-> "", rest |-> FALSE, body |-> NoBody, url |-> FALSE,
           code |-> Absent, state |-> Absent]

ExactCommands == {"/start", "/connect", "/state", "/disconnect", "/help", "/test", "/foo"}

CommandTexts == {[NoText EXCEPT !.cmd = c] : c \in ExactCommands}

PostTexts == {[NoText EXCEPT !.cmd = "/post", !.rest = TRUE, !.body = b] : b \in Bodies}

\* A message that is a URL: with both parameters filled, or with one of them
\* missing or empty; and a message with words before the URL (rest = TRUE)
UrlTexts ==
    {[NoText EXCEPT !.url = TRUE, !.code = c, !.state = s] : c, s \in 1..MaxAuthLinks}
    \cup {[NoText EXCEPT !.url = TRUE, !.code = c, !.state = 1] : c \in {Absent, Null}}
    \cup {[NoText EXCEPT !.url = TRUE, !.code = 1, !.state = c] : c \in {Absent, Null}}
    \cup {[NoText EXCEPT !.url = TRUE, !.rest = TRUE, !.code = 1, !.state = 1]}

FreeTexts == {[NoText EXCEPT !.rest = TRUE, !.body = b] : b \in Bodies}

Texts == CommandTexts \cup PostTexts \cup UrlTexts \cup FreeTexts

----------------------------------------------------------------------------
\* One webhook request: where its task stands (pc), the message (from, text),
\* the handler it was routed to (h), the handler's locals (uid and user: the
\* document it read; grant: the code whose tokens the exchange returned;
\* xHandle), and what it did: the last reply delivered, the error its catch
\* block holds (err), whether a dependency failed on the way (fault: the store,
\* the chat API, a transport error of the posting platform), the response to
\* the webhook call (acked), the number of collection reads and writes (storeOps)
\* and of calls to the posting platform (apiCalls), the text handed to the
\* posting API (posted).  pre and t0 remember the sender's document and the
\* time when the request arrived.

Idle == [pc |-> "idle", from |-> 0, text |-> NoText, h |-> "", uid |-> 0,
         user |-> NoDoc, pre |-> NoDoc, t0 |-> 0, reply |-> "", err |-> "",
         fault |-> FALSE, acked |-> 0, storeOps |-> 0, apiCalls |-> 0,
         posted |-> NoBody,
         grant |-> 0, xHandle |-> ""]

NoHist == [from |-> 0, how |-> ""]

InitWith(r) ==
    /\ route = r
    /\ users = << >>
    /\ now = 1
    /\ dbConnected = FALSE
    /\ isInitialized = FALSE
    /\ bot = FALSE
    /\ initPromise = "none"
    /\ links = 0
    /\ usedCodes = {}
    /\ procs = [p \in Procs |-> Idle]
    /\ hist = NoHist

\* the cold start of the server.js deployment
Init == InitWith("async")


----------------------------------------------------------------------------
\* Helpers over the request records

Set(p, r) == procs' = [procs EXCEPT ![p] = r]

\* await this.bot.sendMessage(...) inside a handler's try block: the message
\* is delivered and the handler goes on to next, or the send throws
sendMessage(P, msg, next) ==
    { [P EXCEPT !.pc = next, !.reply = msg],
      [P EXCEPT !.pc = "catch", !.err = "other", !.fault = TRUE] }

\* a sendMessage wrapped in its own try/catch: delivered, or the failure is logged
trySendMessage(P, msg, next) ==
    { [P EXCEPT !.pc = next, !.reply = msg],
      [P EXCEPT !.pc = next, !.fault = TRUE] }

\* a store operation attempted while the connection is down rejects with a
\* MongooseError, which the handler's catch block receives
storeError(P) == [P EXCEPT !.pc = "catch", !.err = "db", !.fault = TRUE]

startsWithSlash(text) == text.cmd # ""

\* msg.text.match(/https?:\/\/.*/)
matchesUrl(text) == text.url

\* /connect requests in flight that have not yet generated their link
PendingConnects == Cardinality({q \in Procs : procs[q].pc # "idle" /\ procs[q].text.cmd = "/connect"
                                              /\ procs[q].pc # "done"})

AllIdle == \A q \in Procs : procs[q].pc = "idle"

----------------------------------------------------------------------------
\* server.js: the webhook route and ensureInitialized

\* (mutant) a route that starts the task without responding
Webhook_withoutResponse(p, ids, texts) ==
    /\ route = "async"
    /\ procs[p].pc = "idle"
    /\ \E id \in ids, text \in texts :
        /\ text.cmd = "/connect" => links + PendingConnects < MaxAuthLinks
        /\ text.url => text.code <= links + 1 /\ text.state <= links + 1
        /\ Set(p, [Idle EXCEPT !.pc = "ensureInitialized",
                               !.from = id, !.text = text, !.t0 = now,
                               !.pre = docOf(users, id)])
    /\ UNCHANGED <<users, now, dbConnected, isInitialized, bot, initPromise, links, usedCodes, hist, route>>

\* app.post('/webhook'): the 200 response is sent first, then the detached task
\* starts and calls ensureInitialized
Webhook(p, ids, texts) ==
    /\ route = "async"
    /\ procs[p].pc = "idle"
    /\ \E id \in ids, text \in texts :
        /\ text.cmd = "/connect" => links + PendingConnects < MaxAuthLinks
        /\ text.url => text.code <= links + 1 /\ text.state <= links + 1
        /\ Set(p, [Idle EXCEPT !.pc = "ensureInitialized", !.acked = 200,
                               !.from = id, !.text = text, !.t0 = now,
                               !.pre = docOf(users, id)])
    /\ UNCHANGED <<users, now, dbConnected, isInitialized, bot, initPromise, links, usedCodes, hist, route>>

\* botHandler.init(): no await inside, so it runs to completion in one step.
\* It creates the clients and sets isInitialized, or throws after resetting it.
init(ok) ==
    IF ok THEN /\ isInitialized' = TRUE
               /\ bot' = TRUE
          ELSE /\ isInitialized' = FALSE
               /\ \E b \in {bot, TRUE} : bot' = b

\* The initialization promise rejects: the promise is reset, and the starter and
\* every request waiting on it continue in the route's catch block
rejectInitialization(p) ==
    /\ initPromise' = "none"
    /\ procs' = [q \in Procs |->
                    IF q = p \/ procs[q].pc = "awaitInit"
                    THEN [procs[q] EXCEPT !.pc = "routeCatch", !.fault = TRUE]
                    ELSE procs[q]]

\* (mutant) an ensureInitialized without the check of the promise in progress:
\* every caller that finds the system uninitialized starts an initialization
ensureInitialized_withoutSharing(p) ==
    /\ procs[p].pc = "ensureInitialized"
    /\ UNCHANGED <<users, now, dbConnected, links, usedCodes, hist, route>>
    /\ \/ /\ isInitialized /\ dbConnected
          /\ Set(p, [procs[p] EXCEPT !.pc = "handleWebhookUpdate"])
          /\ UNCHANGED <<isInitialized, bot, initPromise>>
       \/ /\ ~(isInitialized /\ dbConnected)
          /\ initPromise = "resolved"
          /\ Set(p, [procs[p] EXCEPT !.pc = "handleWebhookUpdate"])
          /\ UNCHANGED <<isInitialized, bot, initPromise>>
       \/ /\ ~(isInitialized /\ dbConnected)
          /\ initPromise \in {"none", "pending"}
          /\ ~dbConnected
          /\ initPromise' = "pending"
          /\ Set(p, [procs[p] EXCEPT !.pc = "init:connect"])
          /\ UNCHANGED <<isInitialized, bot>>
       \/ /\ ~isInitialized
          /\ initPromise \in {"none", "pending"}
          /\ dbConnected
          /\ \E ok \in BOOLEAN :
                /\ init(ok)
                /\ IF ok THEN /\ initPromise' = "resolved"
                              /\ Set(p, [procs[p] EXCEPT !.pc = "handleWebhookUpdate"])
                         ELSE rejectInitialization(p)

\* ensureInitialized(), up to its first await
ensureInitialized(p) ==
    /\ procs[p].pc = "ensureInitialized"
    /\ UNCHANGED <<users, now, dbConnected, links, usedCodes, hist, route>>
    /\ \/ /\ isInitialized /\ dbConnected
          /\ Set(p, [procs[p] EXCEPT !.pc = "handleWebhookUpdate"])
          /\ UNCHANGED <<isInitialized, bot, initPromise>>
       \/ /\ ~(isInitialized /\ dbConnected)
          /\ initPromise = "pending"
          /\ Set(p, [procs[p] EXCEPT !.pc = "awaitInit"])
          /\ UNCHANGED <<isInitialized, bot, initPromise>>
       \/ /\ ~(isInitialized /\ dbConnected)
          /\ initPromise = "resolved"
          /\ Set(p, [procs[p] EXCEPT !.pc = "handleWebhookUpdate"])
          /\ UNCHANGED <<isInitialized, bot, initPromise>>
       \/ /\ ~(isInitialized /\ dbConnected)
          /\ initPromise = "none"
          /\ ~dbConnected
          /\ initPromise' = "pending"
          /\ Set(p, [procs[p] EXCEPT !.pc = "init:connect"])
          /\ UNCHANGED <<isInitialized, bot>>
       \/ /\ ~isInitialized
          /\ initPromise = "none"
          /\ dbConnected
          /\ \E ok \in BOOLEAN :
                /\ init(ok)
                /\ IF ok THEN /\ initPromise' = "resolved"
                              /\ Set(p, [procs[p] EXCEPT !.pc = "handleWebhookUpdate"])
                         ELSE rejectInitialization(p)

\* the await of database.connect() inside the initialization promise returns
ensureInitialized_connected(p) ==
    /\ procs[p].pc = "init:connect"
    /\ UNCHANGED <<users, now, links, usedCodes, hist, route>>
    /\ \/ /\ dbConnected' = TRUE
          /\ isInitialized
          /\ initPromise' = "resolved"
          /\ Set(p, [procs[p] EXCEPT !.pc = "handleWebhookUpdate"])
          /\ UNCHANGED <<isInitialized, bot>>
       \/ /\ dbConnected' = TRUE
          /\ ~isInitialized
          /\ \E ok \in BOOLEAN :
                /\ init(ok)
                /\ IF ok THEN /\ initPromise' = "resolved"
                              /\ Set(p, [procs[p] EXCEPT !.pc = "handleWebhookUpdate"])
                         ELSE rejectInitialization(p)
       \/ /\ UNCHANGED <<dbConnected, isInitialized, bot>>
          /\ rejectInitialization(p)

\* a request that found the initialization in progress resumes when it resolves
awaitInitialization(p) ==
    /\ procs[p].pc = "awaitInit"
    /\ initPromise = "resolved"
    /\ Set(p, [procs[p] EXCEPT !.pc = "handleWebhookUpdate"])
    /\ UNCHANGED <<users, now, dbConnected, isInitialized, bot, initPromise, links, usedCodes, hist, route>>

\* the catch block of the detached task
WebhookCatch(p) ==
    /\ procs[p].pc = "routeCatch"
    /\ IF isInitialized /\ bot
       THEN \E r \in trySendMessage(procs[p], "botInitializing", "done") : Set(p, r)
       ELSE Set(p, [procs[p] EXCEPT !.pc = "done"])
    /\ UNCHANGED <<users, now, dbConnected, isInitialized, bot, initPromise, links, usedCodes, hist, route>>

\* the detached task ends (server.js); the route function returns (part_002)
WebhookDone(p) ==
    /\ \/ route = "async" /\ procs[p].pc = "done"
       \/ procs[p].pc = "responded"
    /\ hist' = IF procs[p].fault THEN [from |-> 0, how |-> "failed"]
               ELSE IF procs[p].h = "" THEN hist
               ELSE IF procs[p].reply = "disconnected"
                    THEN [from |-> procs[p].from, how |-> "disconnected"]
                    ELSE NoHist
    /\ Set(p, Idle)
    /\ UNCHANGED <<users, now, dbConnected, isInitialized, bot, initPromise, links, usedCodes, route>>


----------------------------------------------------------------------------
\* TelegramBotHandler: dispatch

\* (mutant) a command table that matches the exact commands by prefix
handleCommand_prefixMatch(text) ==
    IF text.cmd = "/start" THEN "start"
    ELSE IF text.cmd = "/connect" THEN "connect"
    ELSE IF text.cmd = "/post" /\ text.rest THEN "post"
    ELSE IF text.cmd = "/state" THEN "state"
    ELSE IF text.cmd = "/disconnect" THEN "disconnect"
    ELSE IF text.cmd = "/help" THEN "help"
    ELSE IF text.cmd = "/test" THEN "test"
    ELSE "unknown"

\* handleCommand(msg): the handler a command text is routed to
handleCommand(text) ==
    IF text.cmd = "/start" /\ ~text.rest /\ ~text.url THEN "start"
    ELSE IF text.cmd = "/connect" /\ ~text.rest /\ ~text.url THEN "connect"
    ELSE IF text.cmd = "/post" /\ text.rest THEN "post"
    ELSE IF text.cmd = "/state" /\ ~text.rest /\ ~text.url THEN "state"
    ELSE IF text.cmd = "/disconnect" /\ ~text.rest /\ ~text.url THEN "disconnect"
    ELSE IF text.cmd = "/help" /\ ~text.rest /\ ~text.url THEN "help"
    ELSE IF text.cmd = "/test" /\ ~text.rest /\ ~text.url THEN "test"
    ELSE "unknown"

\* (mutant) a chain that tests the URL pattern before the command prefix
dispatch_urlFirst(text) ==
    IF matchesUrl(text) THEN "url"
    ELSE IF startsWithSlash(text) THEN handleCommand(text)
    ELSE "ai"

\* the if / else-if chain of handleWebhookUpdate over msg.text
dispatch(text) ==
    IF startsWithSlash(text) THEN handleCommand(text)
    ELSE IF matchesUrl(text) THEN "url"
    ELSE "ai"

\* the route of src/unnamed/part_002: it tries botHandler.init() when the bot is
\* not initialized, swallowing a failure, then awaits handleWebhookUpdate and
\* responds afterwards
WebhookSync(p, ids, texts) ==
    /\ route = "sync"
    /\ procs[p].pc = "idle"
    /\ \E id \in ids, text \in texts :
        /\ text.cmd = "/connect" => links + PendingConnects < MaxAuthLinks
        /\ text.url => text.code <= links + 1 /\ text.state <= links + 1
        /\ Set(p, [Idle EXCEPT !.pc = "handleWebhookUpdate",
                               !.from = id, !.text = text, !.t0 = now,
                               !.pre = docOf(users, id)])
    /\ IF isInitialized THEN UNCHANGED <<isInitialized, bot>>
       ELSE \E ok \in BOOLEAN : init(ok)
    /\ UNCHANGED <<users, now, dbConnected, initPromise, links, usedCodes, hist, route>>

\* res.status(200).json({ status: 'OK' }) after handleWebhookUpdate returned
WebhookSync_respond(p) ==
    /\ route = "sync"
    /\ procs[p].pc = "done"
    /\ Set(p, [procs[p] EXCEPT !.pc = "responded", !.acked = 200])
    /\ UNCHANGED <<users, now, dbConnected, isInitialized, bot, initPromise, links, usedCodes, hist, route>>

\* where a handler waits first: /connect and /disconnect start with
\* ensureDatabaseConnection, /state with its own connection check, the others
\* with synchronous checks of the text
entry(h) == IF h \in {"connect", "disconnect"} THEN "ensureDb"
            ELSE IF h = "state" THEN "stateDb"
            ELSE "entry"

\* handleWebhookUpdate(update) with the bot initialized: routes the text
handleWebhookUpdate(p) ==
    /\ procs[p].pc = "handleWebhookUpdate"
    /\ isInitialized /\ bot
    /\ LET h == dispatch(procs[p].text) IN
          Set(p, [procs[p] EXCEPT !.h = h, !.pc = entry(h)])
    /\ UNCHANGED <<users, now, dbConnected, isInitialized, bot, initPromise, links, usedCodes, hist, route>>

\* handleWebhookUpdate(update) finding the bot not initialized: it tries init()
\* itself; when that fails it tells the user, if a bot instance exists, and returns
handleWebhookUpdate_init(p) ==
    /\ procs[p].pc = "handleWebhookUpdate"
    /\ ~isInitialized \/ ~bot
    /\ UNCHANGED <<users, now, dbConnected, initPromise, links, usedCodes, hist, route>>
    /\ IF ~isInitialized
       THEN \E ok \in BOOLEAN :
               /\ init(ok)
               /\ IF ok
                  THEN LET h == dispatch(procs[p].text) IN
                       Set(p, [procs[p] EXCEPT !.h = h, !.pc = entry(h)])
                  ELSE IF bot'
                  THEN \E r \in trySendMessage([procs[p] EXCEPT !.fault = TRUE],
                                               "botInitializing", "done") : Set(p, r)
                  ELSE Set(p, [procs[p] EXCEPT !.pc = "done", !.fault = TRUE])
       ELSE /\ Set(p, [procs[p] EXCEPT !.pc = "done", !.fault = TRUE])
            /\ UNCHANGED <<isInitialized, bot>>

\* (mutant) a handler that goes on to its query when the connection failed
ensureDatabaseConnection_unchecked(p) ==
    /\ procs[p].pc = "ensureDb"
    /\ \/ /\ dbConnected
          /\ Set(p, [procs[p] EXCEPT !.pc = "find"])
          /\ UNCHANGED dbConnected
       \/ /\ ~dbConnected
          /\ dbConnected' = TRUE
          /\ Set(p, [procs[p] EXCEPT !.pc = "find"])
       \/ /\ ~dbConnected
          /\ UNCHANGED dbConnected
          /\ Set(p, [procs[p] EXCEPT !.pc = "find", !.fault = TRUE])
    /\ UNCHANGED <<users, now, isInitialized, bot, initPromise, links, usedCodes, hist, route>>

\* ensureDatabaseConnection() and the "temporarily unavailable" reply of
\* /connect, callback, /post and /disconnect
ensureDatabaseConnection(p) ==
    /\ procs[p].pc = "ensureDb"
    /\ \/ /\ dbConnected
          /\ Set(p, [procs[p] EXCEPT !.pc = "find"])
          /\ UNCHANGED dbConnected
       \/ /\ ~dbConnected
          /\ dbConnected' = TRUE
          /\ Set(p, [procs[p] EXCEPT !.pc = "find"])
       \/ /\ ~dbConnected
          /\ UNCHANGED dbConnected
          /\ \E r \in sendMessage([procs[p] EXCEPT !.fault = TRUE], "dbUnavailable", "done") : Set(p, r)
    /\ UNCHANGED <<users, now, isInitialized, bot, initPromise, links, usedCodes, hist, route>>


Frame == UNCHANGED <<now, isInitialized, bot, initPromise, hist, route>>

\* (mutant) an update that inserts the new version as another document
findByIdAndUpdate_inserting(coll, id, doc) == Append(coll, doc)

\* findByIdAndUpdate(_id, fields): one document rewritten in place
findByIdAndUpdate(coll, id, doc) == [coll EXCEPT ![id] = doc]

----------------------------------------------------------------------------
\* handleConnectCommand

\* (mutant) a generator that repeats the state and verifier of its first link
generateOAuth2AuthLink_repeating(n) == [codeVerifier |-> 1, state |-> 1]

\* generateOAuth2AuthLink: a fresh state and code verifier; link s carries both
generateOAuth2AuthLink(n) == [codeVerifier |-> n + 1, state |-> n + 1]

\* User.findOne({ telegramId }) and the already-connected check
handleConnectCommand_find(p) ==
    /\ procs[p].pc = "find" /\ procs[p].h = "connect"
    /\ UNCHANGED <<users, dbConnected, links, usedCodes>> /\ Frame
    /\ IF ~dbConnected THEN Set(p, storeError(procs[p]))
       ELSE LET uid == findByTelegramId(users, procs[p].from)
                user == IF uid = 0 THEN NoDoc ELSE users[uid]
                P == [procs[p] EXCEPT !.uid = uid, !.user = user, !.storeOps = @ + 1]
            IN IF uid # 0 /\ user.isConnected
               THEN IF tokenExpired(user, now)
                    THEN Set(p, [P EXCEPT !.pc = "connect:expire"])
                    ELSE \E r \in sendMessage(P, "alreadyConnected", "done") : Set(p, r)
               ELSE IF uid = 0
                    THEN Set(p, [P EXCEPT !.pc = "connect:save"])
                    ELSE Set(p, [P EXCEPT !.pc = "connect:oauth"])

\* the token is expired: findByIdAndUpdate(user._id, { isConnected: false })
handleConnectCommand_expire(p) ==
    /\ procs[p].pc = "connect:expire"
    /\ UNCHANGED <<dbConnected, links, usedCodes>> /\ Frame
    /\ IF ~dbConnected THEN Set(p, storeError(procs[p])) /\ UNCHANGED users
       ELSE /\ users' = findByIdAndUpdate(users, procs[p].uid,
                            [users[procs[p].uid] EXCEPT !.isConnected = FALSE])
            /\ Set(p, [procs[p] EXCEPT !.pc = "connect:oauth", !.storeOps = @ + 1])

\* new User({...}).save(): refused by the unique index when the key exists
handleConnectCommand_save(p) ==
    /\ procs[p].pc = "connect:save"
    /\ UNCHANGED <<dbConnected, links, usedCodes>> /\ Frame
    /\ IF ~dbConnected THEN Set(p, storeError(procs[p])) /\ UNCHANGED users
       ELSE IF uniqueTelegramId(users, procs[p].from)
       THEN LET doc == userSchema(procs[p].from, telegramUsername(procs[p].from), now) IN
            /\ users' = Append(users, doc)
            /\ Set(p, [procs[p] EXCEPT !.pc = "connect:oauth", !.uid = Len(users) + 1,
                                       !.user = doc, !.storeOps = @ + 1])
       ELSE /\ UNCHANGED users
            /\ Set(p, [procs[p] EXCEPT !.pc = "catch", !.err = "other", !.storeOps = @ + 1])

\* the authorization link is generated and its state and verifier are saved
\* on the document; then the link is sent
handleConnectCommand_oauth(p) ==
    /\ procs[p].pc = "connect:oauth"
    /\ UNCHANGED <<dbConnected, usedCodes>> /\ Frame
    /\ IF ~dbConnected THEN Set(p, storeError(procs[p])) /\ UNCHANGED <<users, links>>
       ELSE /\ links' = links + 1
            /\ users' = findByIdAndUpdate(users, procs[p].uid,
                            [users[procs[p].uid] EXCEPT !.oauth = generateOAuth2AuthLink(links)])
            /\ \E r \in sendMessage([procs[p] EXCEPT !.storeOps = @ + 1], "authLink", "done") : Set(p, r)

----------------------------------------------------------------------------
\* handleUrlMessage

\* the synchronous checks of the text: the code= and state= substrings, the
\* URL parse, the two query parameters
handleUrlMessage_parse(p) ==
    /\ procs[p].pc = "entry" /\ procs[p].h = "url"
    /\ UNCHANGED <<users, dbConnected, links, usedCodes>> /\ Frame
    /\ LET text == procs[p].text IN
       IF text.code = Absent \/ text.state = Absent
       THEN Set(p, [procs[p] EXCEPT !.pc = "done"])
       ELSE IF text.rest
       THEN Set(p, [procs[p] EXCEPT !.pc = "catch", !.err = "other"])
       ELSE IF text.state = Null \/ text.code = Null
       THEN \E r \in sendMessage(procs[p], "invalidUrl", "done") : Set(p, r)
       ELSE Set(p, [procs[p] EXCEPT !.pc = "ensureDb"])

\* (mutant) a filter on the identity alone
oauthSessionFilter_identityOnly(doc, id, state) == doc.telegramId = id

\* (mutant) a filter on the state alone
oauthSessionFilter_stateOnly(doc, id, state) == doc.oauth.state = state

\* the filter { telegramId, 'oauth.state': state }
oauthSessionFilter(doc, id, state) == doc.telegramId = id /\ doc.oauth.state = state

\* User.findOne({ telegramId, 'oauth.state': state })
handleUrlMessage_find(p) ==
    /\ procs[p].pc = "find" /\ procs[p].h = "url"
    /\ UNCHANGED <<users, dbConnected, links, usedCodes>> /\ Frame
    /\ IF ~dbConnected THEN Set(p, storeError(procs[p]))
       ELSE LET uid == findOne(users, {i \in DOMAIN users :
                                oauthSessionFilter(users[i], procs[p].from, procs[p].text.state)})
                P == [procs[p] EXCEPT !.uid = uid, !.storeOps = @ + 1]
            IN IF uid = 0
               THEN \E r \in sendMessage(P, "sessionNotFound", "done") : Set(p, r)
               ELSE Set(p, [P EXCEPT !.user = users[uid], !.pc = "url:exchange"])

\* the authorization server redeems a code once, against the verifier of the
\* link the code was issued for
codeAccepted(code, codeVerifier, used) == code = codeVerifier /\ code \notin used

\* twitterClient.loginWithOAuth2({ code, codeVerifier, redirectUri })
handleUrlMessage_exchange(p) ==
    /\ procs[p].pc = "url:exchange"
    /\ UNCHANGED <<users, dbConnected, links>> /\ Frame
    /\ \/ /\ codeAccepted(procs[p].text.code, procs[p].user.oauth.codeVerifier, usedCodes)
          /\ usedCodes' = usedCodes \cup {procs[p].text.code}
          /\ Set(p, [procs[p] EXCEPT !.pc = "url:me", !.grant = procs[p].text.code,
                                     !.apiCalls = @ + 1])
       \/ /\ ~codeAccepted(procs[p].text.code, procs[p].user.oauth.codeVerifier, usedCodes)
          /\ UNCHANGED usedCodes
          /\ Set(p, [procs[p] EXCEPT !.pc = "catch", !.err = "other", !.apiCalls = @ + 1])
       \/ /\ UNCHANGED usedCodes
          /\ Set(p, [procs[p] EXCEPT !.pc = "catch", !.err = "other", !.fault = TRUE,
                                     !.apiCalls = @ + 1])

\* (mutant) a handler that goes on to store the credentials without a handle
handleUrlMessage_me_withoutHandleCheck(p) ==
    /\ procs[p].pc = "url:me"
    /\ UNCHANGED <<users, dbConnected, links, usedCodes>> /\ Frame
    /\ LET P == [procs[p] EXCEPT !.apiCalls = @ + 1] IN
       \/ \E name \in Usernames :
            Set(p, [P EXCEPT !.pc = "url:link", !.xHandle = toLowerCase(name)])
       \/ Set(p, [P EXCEPT !.pc = "url:link"])
       \/ Set(p, [P EXCEPT !.pc = "catch", !.err = "other", !.fault = TRUE])

\* loggedClient.v2.me() and the lower-cased handle
handleUrlMessage_me(p) ==
    /\ procs[p].pc = "url:me"
    /\ UNCHANGED <<users, dbConnected, links, usedCodes>> /\ Frame
    /\ LET P == [procs[p] EXCEPT !.apiCalls = @ + 1] IN
       \/ \E name \in Usernames :
            Set(p, [P EXCEPT !.pc = "url:link", !.xHandle = toLowerCase(name)])
       \/ \E r \in sendMessage(P, "couldNotRead", "done") : Set(p, r)
       \/ Set(p, [P EXCEPT !.pc = "catch", !.err = "other", !.fault = TRUE])

\* (mutant) an update without the $unset of oauth
linked_keepsOauth(doc, xHandle, grant, t) ==
    [doc EXCEPT !.xHandle = xHandle, !.accessToken = grant, !.refreshToken = grant,
                !.tokenExpiresAt = t + TokenLifetime, !.isConnected = TRUE,
                !.lastActivity = t]

\* the document after the update that stores the credentials: $set of the
\* handle, the tokens, the expiry, isConnected and lastActivity, $unset of oauth
linked(doc, xHandle, grant, t) ==
    [doc EXCEPT !.xHandle = xHandle, !.accessToken = grant, !.refreshToken = grant,
                !.tokenExpiresAt = t + TokenLifetime, !.isConnected = TRUE,
                !.lastActivity = t, !.oauth = NoOAuth]

handleUrlMessage_link(p) ==
    /\ procs[p].pc = "url:link"
    /\ UNCHANGED <<dbConnected, links, usedCodes>> /\ Frame
    /\ IF ~dbConnected THEN Set(p, storeError(procs[p])) /\ UNCHANGED users
       ELSE /\ users' = findByIdAndUpdate(users, procs[p].uid,
                            linked(users[procs[p].uid], procs[p].xHandle, procs[p].grant, now))
            /\ \E r \in sendMessage([procs[p] EXCEPT !.storeOps = @ + 1], "connected", "done") : Set(p, r)


----------------------------------------------------------------------------
\* handlePostCommand

\* text.replace('/post ', ''): what follows the command word
tweetText(text) == text.body

\* (mutant) a limit that rejects a text of exactly 280 characters
tooLong_atLimit(body) == body.len >= MaxTweetLength

\* text.length > 280
tooLong(body) == body.len > MaxTweetLength

handlePostCommand_length(p) ==
    /\ procs[p].pc = "entry" /\ procs[p].h = "post"
    /\ UNCHANGED <<users, dbConnected, links, usedCodes>> /\ Frame
    /\ IF tooLong(tweetText(procs[p].text))
       THEN \E r \in sendMessage(procs[p], "tooLong", "done") : Set(p, r)
       ELSE Set(p, [procs[p] EXCEPT !.pc = "ensureDb"])

\* User.findOne({ telegramId, isConnected: true }) and the expiry check
handlePostCommand_find(p) ==
    /\ procs[p].pc = "find" /\ procs[p].h = "post"
    /\ UNCHANGED <<users, dbConnected, links, usedCodes>> /\ Frame
    /\ IF ~dbConnected THEN Set(p, storeError(procs[p]))
       ELSE LET uid == findOne(users, {i \in DOMAIN users :
                                users[i].telegramId = procs[p].from /\ users[i].isConnected})
                P == [procs[p] EXCEPT !.uid = uid, !.storeOps = @ + 1]
            IN IF uid = 0
               THEN \E r \in sendMessage(P, "notConnected", "done") : Set(p, r)
               ELSE IF tokenExpired(users[uid], now)
               THEN Set(p, [P EXCEPT !.user = users[uid], !.pc = "post:expire"])
               ELSE Set(p, [P EXCEPT !.user = users[uid], !.pc = "post:tweet"])

handlePostCommand_expire(p) ==
    /\ procs[p].pc = "post:expire"
    /\ UNCHANGED <<dbConnected, links, usedCodes>> /\ Frame
    /\ IF ~dbConnected THEN Set(p, storeError(procs[p])) /\ UNCHANGED users
       ELSE /\ users' = findByIdAndUpdate(users, procs[p].uid,
                            [users[procs[p].uid] EXCEPT !.isConnected = FALSE])
            /\ \E r \in sendMessage([procs[p] EXCEPT !.storeOps = @ + 1], "expired", "done") : Set(p, r)

\* new TwitterApi(user.accessToken).v2.tweet(text)
handlePostCommand_tweet(p) ==
    /\ procs[p].pc = "post:tweet"
    /\ UNCHANGED <<users, dbConnected, links, usedCodes>> /\ Frame
    /\ LET P == [procs[p] EXCEPT !.posted = tweetText(procs[p].text), !.apiCalls = @ + 1] IN
       \/ Set(p, [P EXCEPT !.pc = "post:activity"])
       \/ Set(p, [P EXCEPT !.pc = "catch", !.err = "other", !.fault = TRUE])

\* findByIdAndUpdate(user._id, { lastActivity: new Date() }) and the confirmation
handlePostCommand_activity(p) ==
    /\ procs[p].pc = "post:activity"
    /\ UNCHANGED <<dbConnected, links, usedCodes>> /\ Frame
    /\ IF ~dbConnected THEN Set(p, storeError(procs[p])) /\ UNCHANGED users
       ELSE /\ users' = findByIdAndUpdate(users, procs[p].uid,
                            [users[procs[p].uid] EXCEPT !.lastActivity = now])
            /\ \E r \in sendMessage([procs[p] EXCEPT !.storeOps = @ + 1], "posted", "done") : Set(p, r)

----------------------------------------------------------------------------
\* handleStateCommand

\* the connection check of /state: reconnects when readyState is not 1
handleStateCommand_checkDb(p) ==
    /\ procs[p].pc = "stateDb"
    /\ \/ /\ dbConnected
          /\ Set(p, [procs[p] EXCEPT !.pc = "find"])
          /\ UNCHANGED dbConnected
       \/ /\ ~dbConnected
          /\ dbConnected' = TRUE
          /\ Set(p, [procs[p] EXCEPT !.pc = "find"])
       \/ /\ ~dbConnected
          /\ UNCHANGED dbConnected
          /\ \E r \in sendMessage([procs[p] EXCEPT !.fault = TRUE], "dbUnavailable", "done") : Set(p, r)
    /\ UNCHANGED <<users, now, isInitialized, bot, initPromise, links, usedCodes, hist, route>>

handleStateCommand_find(p) ==
    /\ procs[p].pc = "find" /\ procs[p].h = "state"
    /\ UNCHANGED <<users, dbConnected, links, usedCodes>> /\ Frame
    /\ IF ~dbConnected THEN Set(p, storeError(procs[p]))
       ELSE LET uid == findByTelegramId(users, procs[p].from)
                user == IF uid = 0 THEN NoDoc ELSE users[uid]
                P == [procs[p] EXCEPT !.uid = uid, !.user = user, !.storeOps = @ + 1]
            IN IF uid = 0
               THEN \E r \in sendMessage(P, "noAccount", "done") : Set(p, r)
               ELSE IF ~user.isConnected
               THEN \E r \in sendMessage(P, "notConnected", "done") : Set(p, r)
               ELSE IF tokenExpired(user, now)
               THEN Set(p, [P EXCEPT !.pc = "state:expire"])
               ELSE \E r \in sendMessage(P, "connectedStatus", "done") : Set(p, r)

handleStateCommand_expire(p) ==
    /\ procs[p].pc = "state:expire"
    /\ UNCHANGED <<dbConnected, links, usedCodes>> /\ Frame
    /\ IF ~dbConnected THEN Set(p, storeError(procs[p])) /\ UNCHANGED users
       ELSE /\ users' = findByIdAndUpdate(users, procs[p].uid,
                            [users[procs[p].uid] EXCEPT !.isConnected = FALSE])
            /\ \E r \in sendMessage([procs[p] EXCEPT !.storeOps = @ + 1], "expired", "done") : Set(p, r)

----------------------------------------------------------------------------
\* handleDisconnectCommand

handleDisconnectCommand_find(p) ==
    /\ procs[p].pc = "find" /\ procs[p].h = "disconnect"
    /\ UNCHANGED <<users, dbConnected, links, usedCodes>> /\ Frame
    /\ IF ~dbConnected THEN Set(p, storeError(procs[p]))
       ELSE LET uid == findByTelegramId(users, procs[p].from)
                user == IF uid = 0 THEN NoDoc ELSE users[uid]
                P == [procs[p] EXCEPT !.uid = uid, !.user = user, !.storeOps = @ + 1]
            IN IF uid = 0 \/ ~user.isConnected
               THEN \E r \in sendMessage(P, "notConnected", "done") : Set(p, r)
               ELSE Set(p, [P EXCEPT !.pc = "disconnect:clear"])

\* (mutant) an update that clears the tokens and leaves isConnected
disconnected_keepsConnected(doc) ==
    [doc EXCEPT !.accessToken = Null, !.refreshToken = Null, !.tokenExpiresAt = Null]

\* (mutant) an update that leaves the expiry
disconnected_keepsExpiry(doc) ==
    [doc EXCEPT !.isConnected = FALSE, !.accessToken = Null, !.refreshToken = Null]

\* the document after { isConnected: false, accessToken: null, refreshToken: null,
\* tokenExpiresAt: null }
disconnected(doc) ==
    [doc EXCEPT !.isConnected = FALSE, !.accessToken = Null, !.refreshToken = Null,
                !.tokenExpiresAt = Null]

handleDisconnectCommand_clear(p) ==
    /\ procs[p].pc = "disconnect:clear"
    /\ UNCHANGED <<dbConnected, links, usedCodes>> /\ Frame
    /\ IF ~dbConnected THEN Set(p, storeError(procs[p])) /\ UNCHANGED users
       ELSE /\ users' = findByIdAndUpdate(users, procs[p].uid, disconnected(users[procs[p].uid]))
            /\ \E r \in sendMessage([procs[p] EXCEPT !.storeOps = @ + 1], "disconnected", "done") : Set(p, r)

----------------------------------------------------------------------------
\* the handlers that touch no account: /start, /help, /test, unknown commands
\* and the text transform

staticReply(h) == CASE h = "start" -> "welcome"
                    [] h = "help" -> "help"
                    [] h = "test" -> "botWorking"
                    [] h = "unknown" -> "unknownCommand"
                    [] OTHER -> ""

handleStaticCommand(p) ==
    /\ procs[p].pc = "entry" /\ procs[p].h \in {"start", "help", "test", "unknown"}
    /\ UNCHANGED <<users, dbConnected, links, usedCodes>> /\ Frame
    /\ \E r \in sendMessage(procs[p], staticReply(procs[p].h), "done") : Set(p, r)

\* handleAIChat: the typing indicator, the completion call and the reply; its
\* catch block reads chatId, which is declared inside the try block, so a
\* failure leaves the handler as a ReferenceError
handleAIChat(p) ==
    /\ procs[p].pc = "entry" /\ procs[p].h = "ai"
    /\ UNCHANGED <<users, dbConnected, links, usedCodes>> /\ Frame
    /\ \/ Set(p, [procs[p] EXCEPT !.pc = "done", !.reply = "generatedTweets"])
       \/ Set(p, [procs[p] EXCEPT !.pc = "hwuCatch", !.fault = TRUE])

----------------------------------------------------------------------------
\* the catch blocks

\* (mutant) a callback handler whose catch block sends the session reply
failureReply_urlAsSessionNotFound(h) ==
    CASE h = "connect" -> "connectFailed"
      [] h = "url" -> "sessionNotFound"
      [] h = "post" -> "postFailed"
      [] h = "state" -> "stateFailed"
      [] h = "disconnect" -> "disconnectFailed"
      [] h = "start" -> "startError"
      [] OTHER -> ""

failureReply(h) == CASE h = "connect" -> "connectFailed"
                     [] h = "url" -> "authFailed"
                     [] h = "post" -> "postFailed"
                     [] h = "state" -> "stateFailed"
                     [] h = "disconnect" -> "disconnectFailed"
                     [] h = "start" -> "startError"
                     [] OTHER -> ""

\* catch (error) of a handler: the database reply is sent unguarded, the generic
\* failure through sendErrorMessage, which swallows a failed send; /help, /test
\* and the unknown-command handler only log
handlerCatch(p) ==
    /\ procs[p].pc = "catch"
    /\ UNCHANGED <<users, dbConnected, links, usedCodes>> /\ Frame
    /\ IF procs[p].h \in {"help", "test", "unknown"}
       THEN Set(p, [procs[p] EXCEPT !.pc = "done"])
       ELSE IF procs[p].err = "db"
       THEN \/ Set(p, [procs[p] EXCEPT !.pc = "done", !.reply = "dbError"])
            \/ Set(p, [procs[p] EXCEPT !.pc = "hwuCatch"])
       ELSE \E r \in trySendMessage(procs[p], failureReply(procs[p].h), "done") : Set(p, r)

\* (mutant) a catch block whose send is not guarded: a failed send leaves
\* handleWebhookUpdate as an exception
handleWebhookUpdate_catch_unguarded(p) ==
    /\ procs[p].pc = "hwuCatch"
    /\ UNCHANGED <<users, dbConnected, links, usedCodes>> /\ Frame
    /\ \/ Set(p, [procs[p] EXCEPT !.pc = "done", !.reply = "processingError"])
       \/ Set(p, [procs[p] EXCEPT !.pc = "routeCatch", !.fault = TRUE])

\* catch (error) of handleWebhookUpdate
handleWebhookUpdate_catch(p) ==
    /\ procs[p].pc = "hwuCatch"
    /\ UNCHANGED <<users, dbConnected, links, usedCodes>> /\ Frame
    /\ \E r \in trySendMessage(procs[p], "processingError", "done") : Set(p, r)

----------------------------------------------------------------------------
\* the environment

\* time passes
Tick ==
    /\ now < MaxTime
    /\ now' = now + 1
    /\ UNCHANGED <<users, dbConnected, isInitialized, bot, initPromise, links, usedCodes, procs, hist, route>>

\* the connection to the document store drops
Disconnected ==
    /\ dbConnected
    /\ dbConnected' = FALSE
    /\ UNCHANGED <<users, now, isInitialized, bot, initPromise, links, usedCodes, procs, hist, route>>

----------------------------------------------------------------------------

\* the steps of the webhook route
RouteStep(p) ==
    \/ ensureInitialized(p)
    \/ ensureInitialized_connected(p)
    \/ WebhookCatch(p)
    \/ WebhookDone(p)
    \/ handleWebhookUpdate(p)
    \/ handlerCatch(p)
    \/ handleWebhookUpdate_catch(p)

\* the steps of the handlers that read or write an account
AccountStep(p) ==
    \/ ensureDatabaseConnection(p)
    \/ handleConnectCommand_find(p)
    \/ handleConnectCommand_expire(p)
    \/ handleConnectCommand_save(p)
    \/ handleConnectCommand_oauth(p)
    \/ handleUrlMessage_parse(p)
    \/ handleUrlMessage_find(p)
    \/ handleUrlMessage_exchange(p)
    \/ handleUrlMessage_me(p)
    \/ handleUrlMessage_link(p)
    \/ handlePostCommand_length(p)
    \/ handlePostCommand_find(p)
    \/ handlePostCommand_expire(p)
    \/ handlePostCommand_tweet(p)
    \/ handlePostCommand_activity(p)
    \/ handleStateCommand_checkDb(p)
    \/ handleStateCommand_find(p)
    \/ handleStateCommand_expire(p)
    \/ handleDisconnectCommand_find(p)
    \/ handleDisconnectCommand_clear(p)

\* the steps of the handlers that touch no account
OtherStep(p) ==
    \/ handleStaticCommand(p)
    \/ handleAIChat(p)

\* the account commands and the callback URLs
AccountTexts ==
    {t \in CommandTexts : t.cmd \in {"/connect", "/state", "/disconnect"}}
    \cup PostTexts \cup UrlTexts

SeqIds == {1}

\* the steps of the route of part_002
SyncStep(p) ==
    \/ handleWebhookUpdate_init(p)
    \/ WebhookSync_respond(p)

\* one request at a time, from one identity: the next webhook arrives when the
\* previous task has ended
SeqNext ==
    \/ AllIdle /\ Webhook(1, SeqIds, AccountTexts)
    \/ RouteStep(1)
    \/ AccountStep(1)
    \/ Tick
    \/ Disconnected

SeqSpec == Init /\ [][SeqNext]_vars

\* the steps of /connect and of the callback
AuthStep(p) ==
    \/ ensureDatabaseConnection(p)
    \/ handleConnectCommand_find(p)
    \/ handleConnectCommand_save(p)
    \/ handleConnectCommand_oauth(p)
    \/ handleUrlMessage_parse(p)
    \/ handleUrlMessage_find(p)
    \/ handleUrlMessage_exchange(p)
    \/ handleUrlMessage_me(p)
    \/ handleUrlMessage_link(p)

AuthTexts == {t \in CommandTexts : t.cmd = "/connect"} \cup UrlTexts

\* the authorization flow of several identities, one request at a time, the
\* clock standing still
AuthNext ==
    \/ AllIdle /\ Webhook(1, Ids, AuthTexts)
    \/ RouteStep(1)
    \/ AuthStep(1)
    \/ Disconnected

AuthSpec == Init /\ [][AuthNext]_vars


----------------------------------------------------------------------------
\* Properties

account(id) == docOf(users, id)

\* the request in slot p has been handled to its end by handler h
Done(p, h) == procs[p].pc = "done" /\ procs[p].h = h

\* the arriving message was a well-formed callback URL: the text is the URL and
\* both parameters carry a value
Callback(p) == /\ procs[p].h = "url"
               /\ ~procs[p].text.rest
               /\ procs[p].text.code >= 1
               /\ procs[p].text.state >= 1

\* the sender's credential expiry was in the past when the request arrived
ExpiredOnArrival(p) == /\ procs[p].pre.tokenExpiresAt # Null
                       /\ procs[p].t0 > procs[p].pre.tokenExpiresAt

\* C1: every account with isConnected = true holds a non-empty access token
C1_LinkedHasAccessCredential ==
    \A i \in DOMAIN users : users[i].isConnected => users[i].accessToken # Null

C1_Witness ==
    \E p \in Procs : /\ Done(p, "post") /\ procs[p].reply = "posted"
                     /\ account(procs[p].from).isConnected
                     /\ account(procs[p].from).accessToken # Null

\* C2: an account holds its access and refresh tokens if and only if it is
\* connected; every unlink (disconnect or detected expiry) leaves both absent
C2_CredentialsIffLinked ==
    \A i \in DOMAIN users :
        (users[i].accessToken # Null /\ users[i].refreshToken # Null) <=> users[i].isConnected

\* C3: a callback carrying the state the sender's document holds, whose code
\* exchange and handle fetch succeed, ends with the account connected, its
\* handle, tokens and expiry stored and the oauth field removed
C3_RoundTrip ==
    \A p \in Procs :
        (/\ Done(p, "url") /\ Callback(p)
         /\ procs[p].pre.telegramId = procs[p].from
         /\ procs[p].pre.oauth.state = procs[p].text.state
         /\ ~procs[p].fault)
        => /\ procs[p].reply # "sessionNotFound"
           /\ (procs[p].grant # 0 /\ procs[p].xHandle # "")
                => LET doc == account(procs[p].from) IN
                   /\ procs[p].reply = "connected"
                   /\ doc.isConnected
                   /\ doc.xHandle # ""
                   /\ doc.accessToken # Null /\ doc.refreshToken # Null
                   /\ doc.tokenExpiresAt # Null
                   /\ doc.oauth = NoOAuth

C3_Witness ==
    \E p \in Procs : /\ Done(p, "url") /\ procs[p].reply = "connected"
                     /\ ~procs[p].pre.isConnected
                     /\ procs[p].pre.oauth.state = procs[p].text.state
                     /\ account(procs[p].from).isConnected
                     /\ account(procs[p].from).oauth = NoOAuth

\* C4: a /connect for an account that already awaits a callback replaces the
\* stored state by a new one, and a callback that carries a replaced state is
\* answered "session not found" and does not connect the account
C4_SecondConnectOverwrites ==
    \A p \in Procs :
        /\ (/\ Done(p, "connect") /\ ~procs[p].fault
            /\ procs[p].pre.oauth.state # Null)
           => /\ account(procs[p].from).oauth.state # Null
              /\ account(procs[p].from).oauth.state # procs[p].pre.oauth.state
        /\ (/\ Done(p, "url") /\ Callback(p) /\ ~procs[p].fault
            /\ procs[p].pre.oauth.state # Null
            /\ procs[p].text.state < procs[p].pre.oauth.state)
           => /\ procs[p].reply = "sessionNotFound"
              /\ ~account(procs[p].from).isConnected

C4_Witness ==
    \E p \in Procs : /\ Done(p, "url") /\ Callback(p)
                     /\ procs[p].pre.oauth.state = 2
                     /\ procs[p].text.state = 1
                     /\ procs[p].reply = "sessionNotFound"

\* C5: a callback whose state differs from the one on the sender's document, or
\* whose sender has no document, is answered "session not found", calls the
\* authorization server not at all and writes nothing: its one store operation
\* is the lookup, and the sender's document is as it was
C5_MismatchRejected ==
    \A p \in Procs :
        (/\ Done(p, "url") /\ Callback(p) /\ ~procs[p].fault
         /\ procs[p].text.state # procs[p].pre.oauth.state)
        => /\ procs[p].reply = "sessionNotFound"
           /\ procs[p].apiCalls = 0
           /\ procs[p].storeOps = 1
           /\ account(procs[p].from) = procs[p].pre

\* the callback carries the state another identity's document holds, while the
\* sender's own document awaits a different one
C5_Witness ==
    \E p \in Procs : /\ Done(p, "url") /\ Callback(p) /\ ~procs[p].fault
                     /\ procs[p].pre.oauth.state # Null
                     /\ procs[p].pre.oauth.state # procs[p].text.state
                     /\ \E i \in DOMAIN users : /\ users[i].telegramId # procs[p].from
                                                /\ users[i].oauth.state = procs[p].text.state
                     /\ procs[p].reply = "sessionNotFound"
                     /\ account(procs[p].from) = procs[p].pre

\* C6 as claimed: after any /post or /state of an identity whose credential
\* expiry is in the past, the account is not connected and the reply is "expired"
C6_ExpiredAfterAnyPostOrState ==
    \A p \in Procs :
        (/\ procs[p].pc = "done" /\ procs[p].h \in {"post", "state"}
         /\ ExpiredOnArrival(p) /\ ~procs[p].fault)
        => /\ ~account(procs[p].from).isConnected
           /\ procs[p].reply = "expired"

\* C6 as amended: for an account whose expiry is in the past, after a /post of
\* at most 280 characters or a /state the account is not connected, and the
\* reply is "expired" when the account was connected, "not connected" when it
\* was not; a longer /post is answered "too long" and leaves the account as it was
C6_ExpiredAfterPostOrState ==
    \A p \in Procs :
        (/\ procs[p].pc = "done" /\ procs[p].h \in {"post", "state"}
         /\ ExpiredOnArrival(p) /\ ~procs[p].fault)
        => IF procs[p].h = "post" /\ procs[p].text.body.len > MaxTweetLength
           THEN /\ procs[p].reply = "tooLong"
                /\ account(procs[p].from) = procs[p].pre
           ELSE /\ ~account(procs[p].from).isConnected
                /\ procs[p].reply = IF procs[p].pre.isConnected THEN "expired"
                                                                 ELSE "notConnected"

C6_Witness ==
    \E p \in Procs : /\ Done(p, "post") /\ ExpiredOnArrival(p) /\ procs[p].pre.isConnected
                     /\ procs[p].reply = "expired"
                     /\ ~account(procs[p].from).isConnected

\* C7: a /post of more than 280 characters is answered "too long" without any
\* read or write of the collection and without a call to the posting API; a
\* /post of at most 280 characters by a connected, unexpired account hands
\* exactly its text to the posting API
C7_LengthLimit ==
    \A p \in Procs :
        procs[p].h = "post" =>
            /\ procs[p].text.body.len > MaxTweetLength
                => /\ procs[p].storeOps = 0 /\ procs[p].apiCalls = 0
                   /\ procs[p].posted = NoBody
                   /\ (procs[p].pc = "done" /\ ~procs[p].fault) => procs[p].reply = "tooLong"
            /\ procs[p].posted # NoBody => procs[p].posted = procs[p].text.body
            /\ (/\ procs[p].pc = "done" /\ ~procs[p].fault
                /\ procs[p].text.body.len <= MaxTweetLength
                /\ procs[p].pre.isConnected
                /\ now <= procs[p].pre.tokenExpiresAt)
               => /\ procs[p].posted = procs[p].text.body
                  /\ procs[p].reply = "posted"

C7_Witness ==
    \E p \in Procs : /\ Done(p, "post") /\ procs[p].text.body.len = MaxTweetLength
                     /\ procs[p].posted = procs[p].text.body
                     /\ procs[p].reply = "posted"

\* C8: /disconnect of a connected account leaves it not connected with both
\* tokens and the expiry cleared, and the /state handled next for the identity
\* answers "not connected"
C8_DisconnectClears ==
    \A p \in Procs :
        /\ (Done(p, "disconnect") /\ procs[p].pre.isConnected /\ ~procs[p].fault)
           => LET doc == account(procs[p].from) IN
              /\ procs[p].reply = "disconnected"
              /\ ~doc.isConnected
              /\ doc.accessToken = Null /\ doc.refreshToken = Null
              /\ doc.tokenExpiresAt = Null
        /\ (Done(p, "state") /\ hist = [from |-> procs[p].from, how |-> "disconnected"] /\ ~procs[p].fault)
           => procs[p].reply = "notConnected"

C8_Witness ==
    \E p \in Procs : /\ Done(p, "state") /\ hist = [from |-> procs[p].from, how |-> "disconnected"]
                     /\ procs[p].reply = "notConnected"
                     /\ account(procs[p].from).accessToken = Null

\* C9: the document the first /connect of an identity creates is found by that
\* identity, not connected and without tokens or expiry
C9_CreatedUnlinked ==
    \A p \in Procs :
        (procs[p].h = "connect" /\ procs[p].pre = NoDoc)
        => /\ (procs[p].pc = "done" /\ ~procs[p].fault)
                => findByTelegramId(users, procs[p].from) # 0
           /\ findByTelegramId(users, procs[p].from) # 0
                => LET doc == account(procs[p].from) IN
                   /\ doc.telegramId = procs[p].from
                   /\ ~doc.isConnected
                   /\ doc.accessToken = Null /\ doc.refreshToken = Null
                   /\ doc.tokenExpiresAt = Null

C9_Witness ==
    \E p \in Procs : /\ procs[p].h = "connect" /\ procs[p].pre = NoDoc
                     /\ procs[p].pc = "connect:oauth"
                     /\ findByTelegramId(users, procs[p].from) # 0
                     /\ ~account(procs[p].from).isConnected


----------------------------------------------------------------------------
\* Requests handled concurrently: the detached tasks of server.js interleave at
\* their awaits

\* a webhook call arrives while other tasks are still running; it takes the
\* lowest free slot.  A callback URL carries a code and a state of links that
\* have been generated
WebhookConcurrent(p, ids, texts) ==
    /\ \A q \in Procs : q < p => procs[q].pc # "idle"
    /\ Webhook(p, ids, {t \in texts : t.url => t.code <= links /\ t.state <= links})

ConnectTexts == {t \in CommandTexts : t.cmd = "/connect"}

\* the steps of /connect
ConnectStep(p) ==
    \/ ensureDatabaseConnection(p)
    \/ handleConnectCommand_find(p)
    \/ handleConnectCommand_save(p)
    \/ handleConnectCommand_oauth(p)

\* concurrent /connect requests of one identity
ConnectRaceNext ==
    \/ \E p \in Procs : \/ WebhookConcurrent(p, SeqIds, ConnectTexts)
                        \/ RouteStep(p)
                        \/ awaitInitialization(p)
                        \/ ConnectStep(p)
    \/ Disconnected

ConnectRaceSpec == Init /\ [][ConnectRaceNext]_vars

\* C12 as claimed: a /connect of an identity that had no document when it
\* arrived, handled without a dependency failing, ends with the authorization
\* link sent, also when a concurrent /connect of the same identity wins the
\* insert
C12_RaceLoserProceeds ==
    \A p \in Procs :
        (Done(p, "connect") /\ procs[p].pre = NoDoc /\ ~procs[p].fault)
        => procs[p].reply = "authLink"

\* C13: no two documents of the collection have the same telegramId
C13_OneAccountPerIdentity ==
    \A i, j \in DOMAIN users : users[i].telegramId = users[j].telegramId => i = j

\* two /connect of one never-seen identity both passed the not-found check; one
\* has inserted, the insert of the other was refused
C13_Witness ==
    \E p, q \in Procs :
        /\ p # q /\ procs[p].from = procs[q].from
        /\ procs[p].h = "connect" /\ procs[q].h = "connect"
        /\ procs[p].pre = NoDoc /\ procs[q].pre = NoDoc
        /\ procs[p].pc = "catch" /\ procs[p].err = "other" /\ procs[p].storeOps = 2
        /\ procs[q].storeOps >= 2 /\ procs[q].uid # 0
        /\ Cardinality({i \in DOMAIN users : users[i].telegramId = procs[p].from}) = 1

\* the callback URLs that carry a code and a state
CallbackTexts == {t \in UrlTexts : ~t.rest /\ t.code >= 1 /\ t.state >= 1}

\* concurrent /connect and callback requests of one identity
AuthRaceNext ==
    \/ \E p \in Procs : \/ WebhookConcurrent(p, SeqIds, ConnectTexts \cup CallbackTexts)
                        \/ RouteStep(p)
                        \/ awaitInitialization(p)
                        \/ AuthStep(p)
    \/ Disconnected

AuthRaceSpec == Init /\ [][AuthRaceNext]_vars

\* the callback in slot p found the document under its state
PassedStateCheck(p) == procs[p].h = "url" /\ procs[p].uid # 0

\* C14: of two callbacks of one identity with the same code and state that both
\* passed the state check, at most one has its code redeemed; the other, once
\* handled, was answered with the generic authentication failure and wrote
\* nothing (its one store operation is the lookup); and when the other's handle
\* fetch succeeded and no other code was ever redeemed, the account ends
\* connected with the tokens of that exchange
C14_SingleUseCode ==
    \A p, q \in Procs :
        (/\ p # q /\ PassedStateCheck(p) /\ PassedStateCheck(q)
         /\ procs[p].from = procs[q].from /\ procs[p].text = procs[q].text)
        => /\ ~(procs[p].grant # 0 /\ procs[q].grant # 0)
           /\ (/\ procs[q].pc = "done" /\ ~procs[q].fault
               /\ procs[q].apiCalls >= 1 /\ procs[q].grant = 0)
              => /\ procs[q].reply = "authFailed"
                 /\ procs[q].storeOps = 1
           /\ (/\ procs[p].pc = "done" /\ procs[q].pc = "done"
               /\ ~procs[p].fault /\ ~procs[q].fault
               /\ procs[p].grant # 0 /\ procs[p].xHandle # ""
               /\ usedCodes = {procs[p].grant})
              => /\ procs[p].reply = "connected"
                 /\ account(procs[p].from).isConnected
                 /\ account(procs[p].from).accessToken = procs[p].grant
                 /\ account(procs[p].from).refreshToken = procs[p].grant

C14_Witness ==
    \E p, q \in Procs :
        /\ p # q /\ PassedStateCheck(p) /\ PassedStateCheck(q)
        /\ procs[p].from = procs[q].from /\ procs[p].text = procs[q].text
        /\ procs[p].pc = "done" /\ procs[p].reply = "connected"
        /\ procs[q].pc = "done" /\ procs[q].reply = "authFailed" /\ procs[q].grant = 0
        /\ account(procs[p].from).accessToken = procs[p].grant

\* C15 as claimed: whenever a callback writes the link, the state it carries is
\* the state the account holds at that moment
C15_OnlyLatestConnectHonoured ==
    [][\A p \in Procs :
          (procs[p].pc = "url:link" /\ procs'[p].pc # "url:link" /\ users' # users)
          => account(procs[p].from).oauth.state = procs[p].text.state]_vars

\* C16 as claimed: no document is connected and still holds its oauth field
C16_LinkedHasNoPending ==
    \A i \in DOMAIN users : users[i].isConnected => users[i].oauth = NoOAuth

\* C17: while the callback of an identity is handled that carries a state held
\* by another identity's document and not by the sender's own, no document
\* changes: the other account is not touched and the sender's is not connected
C17_LookupScopedBySender ==
    [][\A p \in Procs :
          (/\ procs[p].h = "url" /\ procs[p].pc # "done"
           /\ account(procs[p].from).oauth.state # procs[p].text.state
           /\ \E i \in DOMAIN users : /\ users[i].telegramId # procs[p].from
                                      /\ users[i].oauth.state = procs[p].text.state)
          => users' = users]_vars

\* the sender presented the other identity's whole callback (its state and
\* its code) and was turned away
C17_Witness ==
    \E p \in Procs :
        /\ Done(p, "url") /\ Callback(p) /\ ~procs[p].fault
        /\ \E i \in DOMAIN users : /\ users[i].telegramId # procs[p].from
                                   /\ users[i].oauth.state = procs[p].text.state
                                   /\ users[i].oauth.codeVerifier = procs[p].text.code
                                   /\ ~users[i].isConnected
        /\ procs[p].reply = "sessionNotFound"
        /\ procs[p].apiCalls = 0
        /\ ~account(procs[p].from).isConnected

\* C19: a /connect of an account that is connected and not expired is answered
\* "already connected" after its one read of the collection, and while it is
\* handled no authorization link is generated and no document changes
C19_AlreadyConnected ==
    /\ [](\A p \in Procs :
            (/\ Done(p, "connect") /\ ~procs[p].fault
             /\ procs[p].pre.isConnected /\ now <= procs[p].pre.tokenExpiresAt)
            => /\ procs[p].reply = "alreadyConnected"
               /\ procs[p].storeOps = 1
               /\ account(procs[p].from) = procs[p].pre)
    /\ [][\A p \in Procs :
            (/\ procs[p].h = "connect"
             /\ procs[p].pre.isConnected /\ now <= procs[p].pre.tokenExpiresAt)
            => links' = links /\ users' = users]_vars

C19_Witness ==
    \E p \in Procs : /\ Done(p, "connect") /\ procs[p].pre.isConnected
                     /\ now = procs[p].pre.tokenExpiresAt
                     /\ procs[p].reply = "alreadyConnected"
                     /\ account(procs[p].from) = procs[p].pre

\* the replies of the account handlers that completed successfully
SuccessReplies == {"authLink", "connected", "posted", "connectedStatus", "disconnected"}

\* C20 as claimed: an account handler that completed successfully has stamped
\* the sender's lastActivity during its handling
C20_ActivityStamped ==
    \A p \in Procs :
        (/\ procs[p].pc = "done" /\ ~procs[p].fault
         /\ procs[p].h \in {"connect", "url", "post", "state", "disconnect"}
         /\ procs[p].reply \in SuccessReplies)
        => account(procs[p].from).lastActivity >= procs[p].t0

PostRaceTexts == PostTexts \cup {t \in CommandTexts : t.cmd = "/disconnect"}

\* the steps of /post on an unexpired account and of /disconnect
PostRaceStep(p) ==
    \/ handlePostCommand_length(p)
    \/ handlePostCommand_find(p)
    \/ handlePostCommand_tweet(p)
    \/ handlePostCommand_activity(p)
    \/ handleDisconnectCommand_find(p)
    \/ handleDisconnectCommand_clear(p)

\* /post and /disconnect requests of one identity handled concurrently; the
\* /connect and the callback that connect the account arrive when no other
\* request is in flight; the clock stands still
PostRaceNext ==
    \/ AllIdle /\ Webhook(1, SeqIds, ConnectTexts \cup CallbackTexts)
    \/ \E p \in Procs : \/ WebhookConcurrent(p, SeqIds, PostRaceTexts)
                        \/ RouteStep(p)
                        \/ awaitInitialization(p)
                        \/ AuthStep(p)
                        \/ PostRaceStep(p)
    \/ Disconnected

PostRaceSpec == Init /\ [][PostRaceNext]_vars

\* C18 as claimed: at every call of the posting API for an identity, the
\* identity's account is connected and its token is not expired
C18_LinkedWhenPosting ==
    [][\A p \in Procs :
          (procs[p].pc = "post:tweet" /\ procs'[p].apiCalls = procs[p].apiCalls + 1)
          => /\ account(procs[p].from).isConnected
             /\ ~tokenExpired(account(procs[p].from), now)]_vars

\* either deployment of the webhook route, every kind of message, one request
\* at a time (in slot 1); the clock advances between requests
RouteInit == \E r \in {"async", "sync"} : InitWith(r)

\* every kind of text; of the URLs with both parameters, those whose code and
\* state belong to one link
RouteTexts == {t \in Texts : (t.url /\ t.code >= 1 /\ t.state >= 1) => t.code = t.state}

RouteNext ==
    \/ AllIdle /\ Webhook(1, SeqIds, RouteTexts)
    \/ AllIdle /\ WebhookSync(1, SeqIds, RouteTexts)
    \/ RouteStep(1)
    \/ SyncStep(1)
    \/ AccountStep(1)
    \/ OtherStep(1)
    \/ AllIdle /\ Tick
    \/ Disconnected

RouteSpec == RouteInit /\ [][RouteNext]_vars

\* every await settles: a task that can take a step eventually takes one
FairRouteSpec ==
    RouteSpec /\ WF_vars(RouteStep(1) \/ SyncStep(1) \/ AccountStep(1) \/ OtherStep(1))

\* C10: every request to the webhook endpoint is answered with status 200,
\* whether its processing succeeds, fails, or the initialization fails
C10_AlwaysAcknowledged ==
    [](procs[1].pc # "idle" => <>(procs[1].acked = 200))

C10_Witness ==
    \E p \in Procs : /\ procs[p].acked = 200 /\ procs[p].fault
                     /\ procs[p].pc \in {"routeCatch", "responded"}

\* the request in slot p follows a handling that failed
AfterFailure(p) == procs[p].pc # "idle" /\ hist.how = "failed"

\* C11: a failure inside a handler never leaves handleWebhookUpdate (the catch
\* block of the route is entered by a failed initialization only, before any
\* handler was chosen); and the request that follows a failed one is answered
\* with status 200 and its task runs to its end, having reached its handler
\* when none of its own dependencies failed
C11_FaultIsolated ==
    /\ [](\A p \in Procs :
            /\ procs[p].pc = "routeCatch" => procs[p].h = ""
            /\ (AfterFailure(p) /\ procs[p].pc \in {"done", "responded"} /\ ~procs[p].fault)
               => procs[p].h # "")
    /\ [](AfterFailure(1)
          => <>(procs[1].acked = 200 /\ procs[1].pc \in {"done", "responded"}))

C11_Witness ==
    \E p \in Procs : /\ AfterFailure(p) /\ procs[p].pc = "done" /\ ~procs[p].fault
                     /\ procs[p].acked = 200 /\ procs[p].reply = "posted"

----------------------------------------------------------------------------
\* Dispatch

\* command-prefixed texts that match no entry of handleCommand's chain: an
\* exact command followed by more words, /post without a text, and a command
\* followed by a callback URL
OddCommandTexts ==
    {[NoText EXCEPT !.cmd = c, !.rest = TRUE] : c \in {"/start", "/connect"}}
    \cup {[NoText EXCEPT !.cmd = "/post"]}
    \cup {[NoText EXCEPT !.cmd = "/connect", !.rest = TRUE, !.url = TRUE, !.code = 1, !.state = 1]}

DispatchTexts == Texts \cup OddCommandTexts

\* the server.js route, every kind of message, one request at a time; the
\* clock advances between requests
DispatchNext ==
    \/ AllIdle /\ Webhook(1, SeqIds, DispatchTexts)
    \/ RouteStep(1)
    \/ AccountStep(1)
    \/ OtherStep(1)
    \/ AllIdle /\ Tick
    \/ Disconnected

DispatchSpec == Init /\ [][DispatchNext]_vars

\* the text is one of start, connect, post <text>, state, disconnect, help
InVocabulary(text) ==
    \/ text.cmd \in {"/start", "/connect", "/state", "/disconnect", "/help"}
       /\ ~text.rest /\ ~text.url
    \/ text.cmd = "/post" /\ text.rest

IsTest(text) == text.cmd = "/test" /\ ~text.rest /\ ~text.url

\* the request in slot p did nothing but reply
NoOtherEffect(p) == /\ procs[p].storeOps = 0
                    /\ procs[p].apiCalls = 0
                    /\ procs[p].grant = 0
                    /\ procs[p].posted = NoBody
                    /\ account(procs[p].from) = procs[p].pre

\* C21 as stated: every text that starts with "/" and is not one of start,
\* connect, post <text>, state, disconnect, help is answered with the "unknown
\* command" reply and has no other effect
C21_UnknownCommand ==
    \A p \in Procs :
        (procs[p].pc = "done" /\ procs[p].h # ""
            /\ startsWithSlash(procs[p].text) /\ ~InVocabulary(procs[p].text))
        => /\ ~procs[p].fault => procs[p].reply = "unknownCommand"
           /\ NoOtherEffect(p)

\* C21 (amended): every text that starts with "/" and is not one of start,
\* connect, post <text>, state, disconnect, help, test is answered with the
\* "unknown command" reply; /test is answered with the "bot is working" reply;
\* neither has another effect: while such a request is handled no account, no
\* authorization link and no redeemed code changes
C21_UnknownOrTest ==
    /\ [](\A p \in Procs :
            (procs[p].pc = "done" /\ procs[p].h # ""
                /\ startsWithSlash(procs[p].text) /\ ~InVocabulary(procs[p].text))
            => /\ ~procs[p].fault
                  => procs[p].reply = IF IsTest(procs[p].text) THEN "botWorking"
                                      ELSE "unknownCommand"
               /\ NoOtherEffect(p))
    /\ [][\A p \in Procs :
            (procs[p].pc # "idle" /\ startsWithSlash(procs[p].text)
                /\ ~InVocabulary(procs[p].text))
            => users' = users /\ links' = links /\ usedCodes' = usedCodes]_vars

C21_Witness ==
    \E p \in Procs : /\ Done(p, "unknown") /\ procs[p].reply = "unknownCommand"
                     /\ procs[p].text.cmd = "/start" /\ procs[p].text.rest
                     /\ users # << >>

CommandHandlers == {"start", "connect", "post", "state", "disconnect", "help", "test", "unknown"}

\* C22: every text is routed to exactly one handler: a text starting with "/"
\* to command handling, also when it contains a URL (it never reaches the
\* callback's exchange nor the text transform); otherwise a text matching the
\* URL pattern to the callback handler; every other text to the text
\* transform.  The routing step always chooses a handler and the choice stands
\* until the request ends
C22_ExactlyOneHandler ==
    /\ [](\A p \in Procs :
            procs[p].h # ""
            => LET text == procs[p].text IN
               /\ startsWithSlash(text) => procs[p].h \in CommandHandlers
               /\ (~startsWithSlash(text) /\ matchesUrl(text)) => procs[p].h = "url"
               /\ (~startsWithSlash(text) /\ ~matchesUrl(text)) => procs[p].h = "ai"
               /\ procs[p].h # "url" => procs[p].grant = 0
               /\ procs[p].h # "ai" => procs[p].reply # "generatedTweets"
               /\ procs[p].h # "post" => procs[p].posted = NoBody)
    /\ [][\A p \in Procs :
            /\ (procs[p].h # "" /\ procs'[p].pc # "idle") => procs'[p].h = procs[p].h
            /\ (procs[p].pc = "handleWebhookUpdate" /\ isInitialized /\ bot
                   /\ procs'[p].pc # "handleWebhookUpdate")
               => procs'[p].h # ""]_vars

C22_Witness ==
    \E p \in Procs : /\ Done(p, "unknown") /\ procs[p].reply = "unknownCommand"
                     /\ procs[p].text.cmd = "/connect" /\ procs[p].text.url
                     /\ account(procs[p].from).oauth.state = procs[p].text.state

\* the URL text lacks the code or the state parameter, or carries it empty
MissingParameter(text) == text.code \in {Absent, Null} \/ text.state \in {Absent, Null}

\* C23: every protocol or validation error is answered with a message of its
\* own: a callback whose state does not match, a URL text that lacks the code
\* or the state parameter (which, in addition, changes no account), an expired
\* credential met by /post or /state, an over-length /post
C23_ValidationErrorsAnswered ==
    \A p \in Procs :
        (procs[p].pc = "done" /\ ~procs[p].fault)
        => /\ (procs[p].h = "url" /\ ~procs[p].text.rest /\ MissingParameter(procs[p].text))
              => /\ procs[p].reply # ""
                 /\ account(procs[p].from) = procs[p].pre
           /\ (Callback(p) /\ procs[p].text.state # procs[p].pre.oauth.state)
              => procs[p].reply = "sessionNotFound"
           /\ (procs[p].h = "post" /\ tooLong(tweetText(procs[p].text)))
              => procs[p].reply = "tooLong"
           /\ (procs[p].h \in {"post", "state"} /\ procs[p].pre.isConnected
                  /\ ExpiredOnArrival(p) /\ ~tooLong(tweetText(procs[p].text)))
              => procs[p].reply = "expired"

\* the exchange of the request in slot p returned tokens and no handle was read
\* (v2.me() returned no username, or threw)
HandleNotRead(p) == /\ procs[p].h = "url" /\ procs[p].grant # 0 /\ procs[p].xHandle = ""
                    /\ procs[p].pc \in {"catch", "done"}

\* C24: when the code exchange succeeded and the handle could not be read, the
\* completion fails: the user is told so (the "could not read" reply, or the
\* "authentication failed" reply when the fetch threw; nothing if the chat API
\* fails too), never that the account is connected, and the account is as it
\* was when the URL arrived: not connected, no tokens, the pending pair kept
C24_HandleUnreadable ==
    \A p \in Procs :
        HandleNotRead(p)
        => /\ account(procs[p].from) = procs[p].pre
           /\ ~account(procs[p].from).isConnected
           /\ account(procs[p].from).accessToken = procs[p].pre.accessToken
           /\ account(procs[p].from).oauth.state = procs[p].text.state
           /\ procs[p].storeOps = 1
           /\ procs[p].pc = "done"
              => \/ procs[p].reply \in {"couldNotRead", "authFailed"}
                 \/ procs[p].fault /\ procs[p].reply = ""

C24_Witness ==
    \E p \in Procs : /\ HandleNotRead(p) /\ procs[p].pc = "done"
                     /\ procs[p].reply = "couldNotRead" /\ ~procs[p].fault
                     /\ procs[p].text.code \in usedCodes
                     /\ account(procs[p].from).oauth.state = procs[p].text.state

\* the handlers that read or write an account
StoreHandlers == {"connect", "post", "state", "disconnect", "url"}

\* the request in slot p takes the step in which its handler ends, or fails,
\* with the connection to the store down and nothing read or written so far
EndsWithStoreDown(p) ==
    /\ procs[p].h \in StoreHandlers
    /\ procs[p].h = "url" => Callback(p)
    /\ procs[p].storeOps = 0
    /\ ~dbConnected /\ ~dbConnected'
    /\ procs'[p].pc \in {"done", "catch"}

\* the request in slot p takes the step of its connection check, and the
\* connection is not established
CheckFails(p) ==
    /\ procs[p].pc \in {"ensureDb", "stateDb"}
    /\ procs'[p] # procs[p]
    /\ ~dbConnected /\ ~dbConnected'

\* the outcome of a failed connection check: the "temporarily unavailable"
\* reply and the end of the handler, or a failed send; nothing read, written
\* or called
Unavailable(p) ==
    /\ \/ procs'[p].pc = "done" /\ procs'[p].reply = "dbUnavailable"
       \/ procs'[p].pc = "catch" /\ procs'[p].fault /\ procs'[p].err = "other"
    /\ procs'[p].storeOps = 0 /\ procs'[p].apiCalls = 0
    /\ users' = users /\ links' = links /\ usedCodes' = usedCodes

\* C25 as stated: a /connect, /post, /state, /disconnect or callback whose
\* handler starts with the store unreachable is answered "temporarily
\* unavailable" and reads, writes and calls nothing
C25_UnavailableAtStart ==
    [][\A p \in Procs :
        (CheckFails(p) \/ (procs[p].pc = "entry" /\ EndsWithStoreDown(p)))
        => Unavailable(p)]_vars

\* C25 (amended): when the connection check of /connect, /state, /disconnect,
\* of a /post of at most 280 characters or of a callback URL carrying a code
\* and a state fails, the user is sent the "temporarily unavailable" reply and
\* the handler ends there (no retry), having read and written no account and
\* made no posting or authorization call
C25_UnavailableAtCheck ==
    /\ [][\A p \in Procs :
            CheckFails(p) => Unavailable(p)]_vars
    /\ [](\A p \in Procs :
            (procs[p].pc = "done" /\ procs[p].reply = "dbUnavailable")
            => /\ procs[p].h \in StoreHandlers
               /\ procs[p].h = "post" => ~tooLong(tweetText(procs[p].text))
               /\ procs[p].h = "url" => Callback(p)
               /\ NoOtherEffect(p))

C25_Witness ==
    \E p \in Procs : /\ Done(p, "post") /\ procs[p].reply = "dbUnavailable"
                     /\ ~dbConnected /\ procs[p].pre.isConnected
                     /\ account(procs[p].from) = procs[p].pre

\* the identities of the documents, in _id order
telegramIds(coll) == [i \in DOMAIN coll |-> coll[i].telegramId]

\* C26: the collection only grows, and only by the save of a /connect whose
\* sender has no document: no step removes a document or changes whose it is,
\* and a step that adds one is the step of a /connect request, adds exactly
\* one, for the sender, who had none
C26_OnlyConnectCreates ==
    [][/\ Len(users') >= Len(users)
       /\ SubSeq(telegramIds(users'), 1, Len(users)) = telegramIds(users)
       /\ Len(users') > Len(users)
          => \E p \in Procs :
                /\ procs[p].h = "connect" /\ procs'[p] # procs[p]
                /\ findByTelegramId(users, procs[p].from) = 0
                /\ Len(users') = Len(users) + 1
                /\ users'[Len(users')].telegramId = procs[p].from]_vars

C26_Witness ==
    \E p \in Procs : /\ Done(p, "disconnect") /\ procs[p].reply = "disconnected"
                     /\ procs[p].storeOps = 2
                     /\ Len(users) = 1 /\ users[1].telegramId = procs[p].from

\* C27: whenever the route of server.js goes on from ensureInitialized to
\* handleWebhookUpdate, the bot handler is initialized and the database is
\* connected
C27_InitializedWhenHandling ==
    [][\A p \in Procs :
        (route = "async" /\ procs[p].pc \in {"ensureInitialized", "init:connect", "awaitInit"}
            /\ procs'[p].pc = "handleWebhookUpdate")
        => isInitialized' /\ bot' /\ dbConnected']_vars

\* C28: a /connect of an account that is connected and whose expiry has
\* passed sets isConnected to false and then begins a new authorization: the
\* account ends unconnected with a fresh pending pair (the latest link's, not
\* the pair it had) and the reply is the authorization link, through the
\* reads and writes find, expire, oauth
C28_ConnectAfterExpiry ==
    \A p \in Procs :
        /\ (procs[p].h = "connect" /\ procs[p].pre.isConnected /\ ExpiredOnArrival(p)
               /\ procs[p].pc = "connect:oauth")
           => /\ ~account(procs[p].from).isConnected
              /\ procs[p].storeOps = 2
        /\ (Done(p, "connect") /\ procs[p].pre.isConnected /\ ExpiredOnArrival(p)
               /\ ~procs[p].fault)
           => LET doc == account(procs[p].from) IN
              /\ procs[p].reply = "authLink"
              /\ ~doc.isConnected
              /\ doc.oauth.state = links /\ doc.oauth.codeVerifier = links
              /\ doc.oauth.state # Null
              /\ doc.oauth.state # procs[p].pre.oauth.state
              /\ procs[p].storeOps = 3

C28_Witness ==
    \E p \in Procs : /\ Done(p, "connect") /\ procs[p].pre.isConnected /\ ExpiredOnArrival(p)
                     /\ procs[p].reply = "authLink"
                     /\ ~account(procs[p].from).isConnected
                     /\ account(procs[p].from).oauth.state = links

\* concurrent requests that touch no account: /help and a free text
InitRaceTexts == {t \in CommandTexts : t.cmd = "/help"} \cup {t \in FreeTexts : t.body.len = 1}

\* the cold start under concurrent requests
InitRaceNext ==
    \/ \E p \in Procs :
          \/ WebhookConcurrent(p, SeqIds, InitRaceTexts)
          \/ RouteStep(p)
          \/ awaitInitialization(p)
          \/ OtherStep(p)
    \/ Disconnected

InitRaceSpec == Init /\ [][InitRaceNext]_vars

\* the requests whose ensureInitialized call started the initialization in
\* progress (they wait for database.connect()), and those that wait for it
Initializers == {p \in Procs : procs[p].pc = "init:connect"}
Waiters == {p \in Procs : procs[p].pc = "awaitInit"}

\* C29: concurrent callers of ensureInitialized share one initialization: at
\* most one request has database.connect() (and the init() that follows it) in
\* progress, the promise is pending exactly while it has, and every other
\* caller waits for that promise: when the attempt ends, all of them leave
\* the wait with its outcome, and no caller starts another attempt meanwhile
C29_SingleInitialization ==
    /\ [](/\ Cardinality(Initializers) <= 1
          /\ (initPromise = "pending") <=> (Initializers # {})
          /\ Waiters # {} => initPromise \in {"pending", "resolved"})
    /\ [][\A p \in Procs :
            /\ (initPromise = "pending" /\ procs[p].pc = "ensureInitialized"
                   /\ procs'[p] # procs[p])
               => procs'[p].pc = "awaitInit" /\ initPromise' = "pending"
            /\ (procs[p].pc = "init:connect" /\ procs'[p].pc = "routeCatch")
               => \A q \in Waiters : procs'[q].pc = "routeCatch"
            /\ (procs[p].pc = "awaitInit" /\ procs'[p].pc = "handleWebhookUpdate")
               => initPromise = "resolved" /\ isInitialized]_vars

C29_Witness ==
    \E p, q \in Procs : /\ procs[p].pc = "init:connect" /\ procs[q].pc = "awaitInit"
                        /\ initPromise = "pending" /\ ~isInitialized

\* the callback in slot p carries the state and the code of the pair the
\* sender's document held when it arrived
CarriesStoredPair(p) == /\ Callback(p)
                        /\ procs[p].pre.oauth.state = procs[p].text.state
                        /\ procs[p].pre.oauth.codeVerifier = procs[p].text.code

\* C30: no state of an unconnected account is a dead end.  Whatever happened to
\* the account before (never connected, awaiting a callback, unlinked by expiry
\* or /disconnect, a rejected or failed callback), a /connect leaves it with a
\* fresh pending pair whose code has not been redeemed and sends the link; and
\* a callback carrying the stored pair is refused by the exchange only if that
\* code was redeemed before, and connects the account when the exchange and
\* the handle fetch succeed
C30_NoDeadEnd ==
    \A p \in Procs :
        /\ (Done(p, "connect") /\ ~procs[p].pre.isConnected /\ ~procs[p].fault)
           => LET doc == account(procs[p].from) IN
              /\ procs[p].reply = "authLink"
              /\ ~doc.isConnected
              /\ doc.oauth.state = links /\ doc.oauth.state # Null
              /\ doc.oauth.codeVerifier \notin usedCodes
        /\ (Done(p, "url") /\ CarriesStoredPair(p) /\ ~procs[p].fault)
           => /\ procs[p].grant = 0 => procs[p].text.code \in usedCodes
              /\ procs[p].grant # 0 => procs[p].reply \in {"connected", "couldNotRead"}
              /\ procs[p].xHandle # ""
                 => /\ procs[p].reply = "connected"
                    /\ account(procs[p].from).isConnected

\* an account whose first authorization failed after the code was redeemed is
\* connected through a second /connect
C30_Witness ==
    \E p \in Procs : /\ Done(p, "url") /\ CarriesStoredPair(p)
                     /\ procs[p].reply = "connected"
                     /\ account(procs[p].from).isConnected
                     /\ procs[p].pre.accessToken = Null
                     /\ procs[p].text.state = 2 /\ usedCodes = {1, 2}

====
